---- MODULE Spec2Model ----
(***************************************************************************)
(* Source registry (backend/utils/settings.py) and schema reflection       *)
(* (old_project/backend/apps/tables/workers.py) of dwata.                  *)
(*                                                                         *)
(* Python dicts are modelled as functions; a dict is enumerated in one     *)
(* fixed order (LabelOrder restricted to its keys).  Python lists are      *)
(* sequences, x[0] is x[1] here.  A raised exception is an outcome string. *)
(***************************************************************************)
EXTENDS Integers, Sequences, FiniteSets, TLC

\* ------------------------------------------------------------- bounds
MaxCalls == 2        \* refresh calls in one behaviour
MaxTables == 2       \* tables a live source exposes

\* ------------------------------------------------------------- values
SYSTEM_LABEL == "dwata_meta"
SYSTEM_DB_URL == "sqlite:///dwata_meta.db"

LabelOrder == <<"dwata_meta", "sales">>
Labels == {LabelOrder[k] : k \in 1..Len(LabelOrder)}

DbUrls == {"postgres://host/salesdb", "mysql://host/crm"}
AllUrls == DbUrls \cup {SYSTEM_DB_URL}

\* urlparse(url).scheme
Scheme(url) ==
  CASE url = "postgres://host/salesdb" -> "postgres"
    [] url = "mysql://host/crm" -> "mysql"
    [] url = "sqlite:///dwata_meta.db" -> "sqlite"

\* services.all_services.keys(), in dict order
all_services == <<"stripe", "mailchimp">>

\* sname.upper()
Upper(sname) ==
  CASE sname = "stripe" -> "STRIPE"
    [] sname = "mailchimp" -> "MAILCHIMP"

SectionNames == {Upper(all_services[k]) : k \in 1..Len(all_services)}

DbEntries == {[db_url |-> u] : u \in DbUrls}
ServiceEntries == {[token |-> "secret"]}
NoValue == [none |-> TRUE]

\* dict.items(): the keys of d in enumeration order
Keys(d) == SelectSeq(LabelOrder, LAMBDA l : l \in DOMAIN d)

\* The states of the Settings Provider: get_settings() raises when broken,
\* else returns an object with DATABASES and zero or more service sections.
SettingsStates ==
  [broken : BOOLEAN,
   DATABASES : UNION {[S -> DbEntries] : S \in SUBSET Labels},
   sections : UNION {[K -> UNION {[S -> ServiceEntries] : S \in SUBSET Labels}]
                       : K \in SUBSET SectionNames}]

\* ------------------------------------------------------------- state
VARIABLES
  settings,       \* the Settings Provider
  reg,            \* the last call of the registry and its result
  data_sources,   \* Metadata Store: DataSourceRecords
  tables,         \* Metadata Store: TableRecords
  liveTables,     \* live sources: db_url -> table names, in reflection order
  openConns,      \* connections opened and not closed, as db_urls
  calls,          \* refresh calls started; also the clock of utcnow()
  pc,             \* position of refresh
  batch,          \* source_label_list
  all_sources,    \* local of refresh
  idx,            \* position of the for loop in source_label_list
  source_settings,\* local of refresh
  data_source,    \* local of refresh
  names,          \* table names still to insert (meta.tables)
  conn,           \* TRUE while the connection of this iteration is open
  outcome,        \* how the last refresh ended
  trace,          \* what the current refresh did: <<event, label>>
  storeAtStart,   \* the Metadata Store when the current refresh started
  prev            \* the refresh before, when it succeeded: its batch and storeAtStart

vars == <<settings, reg, data_sources, tables, liveTables, openConns, calls,
          pc, batch, all_sources, idx, source_settings, data_source, names,
          conn, outcome, trace, storeAtStart, prev>>

storeVars == <<data_sources, tables, liveTables, openConns, calls>>
refreshVars == <<pc, batch, all_sources, idx, source_settings, data_source,
                 names, conn, outcome, trace, storeAtStart, prev>>

\* ------------------------------------------------------------- registry
\* get_settings()
get_settings(s) == IF s.broken THEN [ok |-> FALSE] ELSE [ok |-> TRUE]

\* lines 10-14: the configured databases, then the system database
Databases(s) ==
  [k \in 1..Len(Keys(s.DATABASES)) |->
     <<Keys(s.DATABASES)[k], "database",
       Scheme(s.DATABASES[Keys(s.DATABASES)[k]].db_url), {}>>]
  \o << <<SYSTEM_LABEL, "database", "sqlite", {"is_system_db"}>> >>

\* lines 19-22: the entries of one service section
SectionSources(s, sname) ==
  IF Upper(sname) \in DOMAIN s.sections
  THEN [k \in 1..Len(Keys(s.sections[Upper(sname)])) |->
          <<Keys(s.sections[Upper(sname)])[k], "service", sname>>]
  ELSE <<>>

\* lines 16-22: the loop over all_services
RECURSIVE Services(_, _)
Services(s, k) ==
  IF k > Len(all_services) THEN <<>>
  ELSE SectionSources(s, all_services[k]) \o Services(s, k + 1)

\* get_all_sources(): ok and the list, or the provider's failure
get_all_sources(s) ==
  IF ~get_settings(s).ok
  THEN [ok |-> FALSE, error |-> "SettingsError", val |-> <<>>, reads |-> 1]
  ELSE [ok |-> TRUE, error |-> "none",
        val |-> Databases(s) \o Services(s, 1), reads |-> 1]

\* [x for x in all_sources if x[0] == source_label]
Matching(sources, source_label) ==
  SelectSeq(sources, LAMBDA x : x[1] = source_label)

\* lines 34-37 of get_source_settings
section_entry(s, requested_source) ==
  IF requested_source[2] = "database"
  THEN IF requested_source[1] \in DOMAIN s.DATABASES
       THEN [error |-> "none", val |-> s.DATABASES[requested_source[1]]]
       ELSE [error |-> "KeyError", val |-> NoValue]
  ELSE IF requested_source[2] = "service"
  THEN IF Upper(requested_source[3]) \notin DOMAIN s.sections
       THEN [error |-> "AttributeError", val |-> NoValue]
       ELSE IF requested_source[1] \in DOMAIN s.sections[Upper(requested_source[3])]
       THEN [error |-> "none",
             val |-> s.sections[Upper(requested_source[3])][requested_source[1]]]
       ELSE [error |-> "KeyError", val |-> NoValue]
  ELSE [error |-> "none", val |-> NoValue]

\* get_source_settings taking the last matching descriptor, not the first
get_source_settings_lastMatch(s, source_label) ==
  IF source_label = "dwata_meta"
  THEN [error |-> "none", val |-> [db_url |-> SYSTEM_DB_URL], reads |-> 0]
  ELSE IF ~get_settings(s).ok
  THEN [error |-> "SettingsError", val |-> NoValue, reads |-> 1]
  ELSE IF Matching(get_all_sources(s).val, source_label) = <<>>
  THEN [error |-> "IndexError", val |-> NoValue, reads |-> 2]
  ELSE [error |-> section_entry(s, Matching(get_all_sources(s).val, source_label)
                       [Len(Matching(get_all_sources(s).val, source_label))]).error,
        val |-> section_entry(s, Matching(get_all_sources(s).val, source_label)
                       [Len(Matching(get_all_sources(s).val, source_label))]).val,
        reads |-> 2]

\* get_source_settings returning None for a label no descriptor carries
get_source_settings_noneOnMiss(s, source_label) ==
  IF source_label = "dwata_meta"
  THEN [error |-> "none", val |-> [db_url |-> SYSTEM_DB_URL], reads |-> 0]
  ELSE IF ~get_settings(s).ok
  THEN [error |-> "SettingsError", val |-> NoValue, reads |-> 1]
  ELSE IF Matching(get_all_sources(s).val, source_label) = <<>>
  THEN [error |-> "none", val |-> NoValue, reads |-> 2]
  ELSE [error |-> section_entry(s, Matching(get_all_sources(s).val, source_label)[1]).error,
        val |-> section_entry(s, Matching(get_all_sources(s).val, source_label)[1]).val,
        reads |-> 2]

\* get_source_settings reading the Settings Provider before the test of the
\* system label
get_source_settings_readFirst(s, source_label) ==
  IF ~get_settings(s).ok
  THEN [error |-> "SettingsError", val |-> NoValue, reads |-> 1]
  ELSE IF source_label = "dwata_meta"
  THEN [error |-> "none", val |-> [db_url |-> SYSTEM_DB_URL], reads |-> 1]
  ELSE IF Matching(get_all_sources(s).val, source_label) = <<>>
  THEN [error |-> "IndexError", val |-> NoValue, reads |-> 2]
  ELSE [error |-> section_entry(s, Matching(get_all_sources(s).val, source_label)[1]).error,
        val |-> section_entry(s, Matching(get_all_sources(s).val, source_label)[1]).val,
        reads |-> 2]

\* get_source_settings(source_label): error, value and the number of times
\* the Settings Provider was read
get_source_settings(s, source_label) ==
  IF source_label = "dwata_meta"
  THEN [error |-> "none", val |-> [db_url |-> SYSTEM_DB_URL], reads |-> 0]
  ELSE IF ~get_settings(s).ok
  THEN [error |-> "SettingsError", val |-> NoValue, reads |-> 1]
  ELSE IF Matching(get_all_sources(s).val, source_label) = <<>>
  THEN [error |-> "IndexError", val |-> NoValue, reads |-> 2]
  ELSE [error |-> section_entry(s, Matching(get_all_sources(s).val, source_label)[1]).error,
        val |-> section_entry(s, Matching(get_all_sources(s).val, source_label)[1]).val,
        reads |-> 2]

NoCall == [op |-> "none", label |-> "none", error |-> "none",
           sources |-> <<>>, val |-> NoValue, reads |-> 0]

\* a caller invokes get_all_sources()
ListAllSources ==
  /\ reg' = [op |-> "list", label |-> "none",
             error |-> get_all_sources(settings).error,
             sources |-> get_all_sources(settings).val,
             val |-> NoValue, reads |-> get_all_sources(settings).reads]
  /\ UNCHANGED <<settings, storeVars, refreshVars>>

\* a caller invokes get_source_settings(source_label)
ResolveSourceSettings ==
  \E source_label \in Labels \cup {"ghost"} :
    /\ reg' = [op |-> "resolve", label |-> source_label,
               error |-> get_source_settings(settings, source_label).error,
               sources |-> <<>>,
               val |-> get_source_settings(settings, source_label).val,
               reads |-> get_source_settings(settings, source_label).reads]
    /\ UNCHANGED <<settings, storeVars, refreshVars>>

\* ------------------------------------------------------------- refresh
TableNames == <<"a", "b", "c", "d">>

\* source_label_list: the labels of a batch, each once, in processing order
Batches == {<<l>> : l \in Labels} \cup
           {<<l, m>> : <<l, m>> \in {p \in Labels \X Labels : p[1] # p[2]}}

None == [none |-> TRUE]
NoStore == [data_sources |-> <<>>, tables |-> <<>>]
NoPrev == [batch |-> <<>>, outcome |-> "none", storeAtStart |-> NoStore]

\* fetch_one without the where clause: the first DataSourceRecord
fetch_one_noWhere(store, source_label) ==
  IF store = <<>> THEN None ELSE store[1]

\* dwata_meta_db.fetch_one(data_sources.select().where(label == source_label))
fetch_one(store, source_label) ==
  IF SelectSeq(store, LAMBDA r : r.label = source_label) = <<>>
  THEN None
  ELSE SelectSeq(store, LAMBDA r : r.label = source_label)[1]

\* tables.insert().values(...), lines 28-33
TableRecord(ds, name, now) ==
  [data_source_id |-> ds.id, table_name |-> name,
   attributes |-> <<>>, created_at |-> now]

\* the refresh ends (a return or an exception leaving the coroutine)
Finish(out) ==
  /\ pc' = "done"
  /\ outcome' = out
  /\ all_sources' = <<>>
  /\ idx' = 0
  /\ source_settings' = NoValue
  /\ data_source' = None
  /\ names' = <<>>

\* line 11: refresh(source_label_list) is called and reads the registry
StartRefresh ==
  \E b \in Batches :
    /\ pc \in {"idle", "done"}
    /\ calls < MaxCalls
    /\ calls' = calls + 1
    /\ batch' = b
    /\ trace' = <<>>
    /\ storeAtStart' = [data_sources |-> data_sources, tables |-> tables]
    /\ prev' = IF outcome = "success"
                THEN [batch |-> batch, outcome |-> outcome,
                      storeAtStart |-> storeAtStart]
                ELSE NoPrev
    /\ conn' = FALSE
    /\ IF get_all_sources(settings).ok
       THEN /\ pc' = "resolve"
            /\ all_sources' = get_all_sources(settings).val
            /\ idx' = 1
            /\ outcome' = "running"
            /\ UNCHANGED <<source_settings, data_source, names>>
       ELSE Finish(get_all_sources(settings).error)
    /\ UNCHANGED <<settings, reg, data_sources, tables, liveTables, openConns>>

\* Resolve skipping a label that is no database instead of returning False
Resolve_skipService ==
  /\ pc = "resolve"
  /\ idx <= Len(batch)
  /\ IF Matching(all_sources, batch[idx]) = <<>>
     THEN Finish("IndexError")
     ELSE IF get_source_settings(settings, batch[idx]).error # "none"
     THEN Finish(get_source_settings(settings, batch[idx]).error)
     ELSE IF Matching(all_sources, batch[idx])[1][2] # "database"
     THEN /\ idx' = idx + 1
          /\ UNCHANGED <<pc, outcome, all_sources, source_settings,
                         data_source, names>>
     ELSE /\ pc' = "fetch"
          /\ source_settings' = get_source_settings(settings, batch[idx]).val
          /\ UNCHANGED <<outcome, all_sources, idx, data_source, names>>
  /\ UNCHANGED <<settings, reg, storeVars, batch, conn, trace,
                 storeAtStart, prev>>

\* Resolve skipping a label that all_sources does not hold
Resolve_skipUnknown ==
  /\ pc = "resolve"
  /\ idx <= Len(batch)
  /\ IF Matching(all_sources, batch[idx]) = <<>>
     THEN /\ idx' = idx + 1
          /\ UNCHANGED <<pc, outcome, all_sources, source_settings,
                         data_source, names>>
     ELSE IF get_source_settings(settings, batch[idx]).error # "none"
     THEN Finish(get_source_settings(settings, batch[idx]).error)
     ELSE IF Matching(all_sources, batch[idx])[1][2] # "database"
     THEN Finish("False")
     ELSE /\ pc' = "fetch"
          /\ source_settings' = get_source_settings(settings, batch[idx]).val
          /\ UNCHANGED <<outcome, all_sources, idx, data_source, names>>
  /\ UNCHANGED <<settings, reg, storeVars, batch, conn, trace,
                 storeAtStart, prev>>

\* lines 13-18: the next label is looked up in all_sources and resolved
Resolve ==
  /\ pc = "resolve"
  /\ idx <= Len(batch)
  /\ IF Matching(all_sources, batch[idx]) = <<>>
     THEN Finish("IndexError")
     ELSE IF get_source_settings(settings, batch[idx]).error # "none"
     THEN Finish(get_source_settings(settings, batch[idx]).error)
     ELSE IF Matching(all_sources, batch[idx])[1][2] # "database"
     THEN Finish("False")
     ELSE /\ pc' = "fetch"
          /\ source_settings' = get_source_settings(settings, batch[idx]).val
          /\ UNCHANGED <<outcome, all_sources, idx, data_source, names>>
  /\ UNCHANGED <<settings, reg, storeVars, batch, conn, trace,
                 storeAtStart, prev>>

\* lines 20-22: the DataSourceRecord of the label is fetched
FetchDataSource ==
  /\ pc = "fetch"
  /\ data_source' = fetch_one(data_sources, batch[idx])
  /\ pc' = "connect"
  /\ UNCHANGED <<settings, reg, storeVars, batch, all_sources, idx,
                 source_settings, names, conn, outcome, trace,
                 storeAtStart, prev>>

\* lines 23-25: connect_database and meta.reflect(); either may fail
Connect ==
  /\ pc = "connect"
  /\ \/ /\ Finish("ConnectionFailure")
        /\ UNCHANGED <<openConns, conn, trace>>
     \/ /\ openConns' = Append(openConns, source_settings.db_url)
        /\ conn' = TRUE
        /\ trace' = Append(trace, <<"open", batch[idx]>>)
        /\ \/ Finish("ReflectionFailure")
           \/ /\ names' = liveTables[source_settings.db_url]
              /\ pc' = "insert"
              /\ UNCHANGED <<outcome, all_sources, idx, source_settings,
                             data_source>>
  /\ UNCHANGED <<settings, reg, data_sources, tables, liveTables, calls,
                 batch, storeAtStart, prev>>

\* InsertTable as an upsert: a table already recorded is not inserted again
InsertTable_upsert ==
  /\ pc = "insert"
  /\ names # <<>>
  /\ IF data_source = None
     THEN /\ Finish("TypeError")
          /\ UNCHANGED <<tables, trace>>
     ELSE \/ /\ tables' =
                  IF \E k \in 1..Len(tables) :
                       /\ tables[k].data_source_id = data_source.id
                       /\ tables[k].table_name = Head(names)
                  THEN tables
                  ELSE Append(tables, TableRecord(data_source, Head(names), calls))
             /\ names' = Tail(names)
             /\ trace' = Append(trace, <<"insert", batch[idx]>>)
             /\ UNCHANGED <<pc, outcome, all_sources, idx, source_settings,
                            data_source>>
          \/ /\ Finish("StoreFailure")
             /\ UNCHANGED <<tables, trace>>
  /\ UNCHANGED <<settings, reg, data_sources, liveTables, openConns, calls,
                 batch, conn, storeAtStart, prev>>

\* lines 27-34: one iteration of the loop over meta.tables
InsertTable ==
  /\ pc = "insert"
  /\ names # <<>>
  /\ IF data_source = None
     THEN /\ Finish("TypeError")
          /\ UNCHANGED <<tables, trace>>
     ELSE \/ /\ tables' = Append(tables,
                    TableRecord(data_source, Head(names), calls))
             /\ names' = Tail(names)
             /\ trace' = Append(trace, <<"insert", batch[idx]>>)
             /\ UNCHANGED <<pc, outcome, all_sources, idx, source_settings,
                            data_source>>
          \/ /\ Finish("StoreFailure")
             /\ UNCHANGED <<tables, trace>>
  /\ UNCHANGED <<settings, reg, data_sources, liveTables, openConns, calls,
                 batch, conn, storeAtStart, prev>>

\* line 36: conn.close(), and the loop moves to the next label
Close ==
  /\ pc = "insert"
  /\ names = <<>>
  /\ openConns' = SubSeq(openConns, 1, Len(openConns) - 1)
  /\ conn' = FALSE
  /\ trace' = Append(trace, <<"close", batch[idx]>>)
  /\ idx' = idx + 1
  /\ pc' = "resolve"
  /\ UNCHANGED <<settings, reg, data_sources, tables, liveTables, calls,
                 batch, all_sources, source_settings, data_source, names,
                 outcome, storeAtStart, prev>>

\* line 38: every label was processed
Return ==
  /\ pc = "resolve"
  /\ idx > Len(batch)
  /\ Finish("success")
  /\ UNCHANGED <<settings, reg, storeVars, batch, conn, trace,
                 storeAtStart, prev>>

\* ------------------------------------------------------------- specifications
IdleRefresh ==
  /\ pc = "idle" /\ batch = <<>> /\ all_sources = <<>> /\ idx = 0
  /\ source_settings = NoValue /\ data_source = None /\ names = <<>>
  /\ conn = FALSE /\ outcome = "none" /\ trace = <<>>
  /\ storeAtStart = NoStore /\ prev = NoPrev

\* the registry alone, over every state of the Settings Provider
InitRegistry ==
  /\ settings \in SettingsStates
  /\ reg = NoCall
  /\ data_sources = <<>> /\ tables = <<>>
  /\ liveTables = [u \in AllUrls |-> <<>>]
  /\ openConns = <<>> /\ calls = 0
  /\ IdleRefresh

NextRegistry == ListAllSources \/ ResolveSourceSettings

SpecRegistry == InitRegistry /\ [][NextRegistry]_vars

\* Settings Provider states of the refresh runs: "sales" is unknown, a
\* database, a service or both; or the provider is broken
RefreshSettings ==
  {s \in SettingsStates :
     /\ DOMAIN s.DATABASES \subseteq {"sales"}
     /\ \A l \in DOMAIN s.DATABASES : s.DATABASES[l].db_url = "postgres://host/salesdb"
     /\ DOMAIN s.sections \subseteq {"STRIPE"}
     /\ \A k \in DOMAIN s.sections : DOMAIN s.sections[k] \subseteq {"sales"}
     /\ s.broken => DOMAIN s.DATABASES = {} /\ DOMAIN s.sections = {}}

\* DataSourceRecords of the labels in S, ids assigned in order of creation
DataSourceRecords(S) ==
  [k \in 1..Len(SelectSeq(LabelOrder, LAMBDA l : l \in S)) |->
     [id |-> k, label |-> SelectSeq(LabelOrder, LAMBDA l : l \in S)[k]]]

\* the urls the refresh runs connect to
RefreshUrls == {SYSTEM_DB_URL, "postgres://host/salesdb"}

\* TableRecords of earlier reflections: none, or one of a DataSourceRecord
EarlierTables(store) ==
  {<<>>} \cup
  {<<TableRecord(store[k], TableNames[1], 0)>> : k \in 1..Len(store)}

Init ==
  /\ settings \in RefreshSettings
  /\ reg = NoCall
  /\ data_sources \in {DataSourceRecords(S) : S \in SUBSET Labels}
  /\ tables \in EarlierTables(data_sources)
  /\ liveTables \in {f \in [AllUrls -> {SubSeq(TableNames, 1, n) : n \in 0..MaxTables}] :
                       \A u \in AllUrls \ RefreshUrls : f[u] = <<>>}
  /\ openConns = <<>> /\ calls = 0
  /\ IdleRefresh

Next ==
  \/ StartRefresh
  \/ Resolve
  \/ FetchDataSource
  \/ Connect
  \/ InsertTable
  \/ Close
  \/ Return

Spec == Init /\ [][Next]_vars

\* ------------------------------------------------------------- properties
\* the registry has a result in this state of the Settings Provider
RegistryOk == get_all_sources(settings).ok

\* the descriptors of list_all_sources() carrying a label
Carrying(label) == Matching(get_all_sources(settings).val, label)

InRegistry(label) == RegistryOk /\ Carrying(label) # <<>>
IsDatabaseLabel(label) == InRegistry(label) /\ Carrying(label)[1][2] = "database"
IsServiceLabel(label) == InRegistry(label) /\ Carrying(label)[1][2] = "service"

\* the raw entry stored under the label of a descriptor in the descriptor's
\* section, NoValue when the section holds none
StoredEntry(d) ==
  IF d[2] = "database"
  THEN IF d[1] \in DOMAIN settings.DATABASES
       THEN settings.DATABASES[d[1]] ELSE NoValue
  ELSE IF Upper(d[3]) \in DOMAIN settings.sections
          /\ d[1] \in DOMAIN settings.sections[Upper(d[3])]
       THEN settings.sections[Upper(d[3])][d[1]] ELSE NoValue

\* the positions of a list whose descriptor is labelled "dwata_meta"
SystemEntries(sources) ==
  {k \in 1..Len(sources) : sources[k][1] = "dwata_meta"}

\* C1: every list get_all_sources() returns holds exactly one descriptor
\* labelled "dwata_meta", and that descriptor is a database.
C1_OneSystemDescriptor ==
  (reg.op = "list" /\ reg.error = "none") =>
    /\ Cardinality(SystemEntries(reg.sources)) = 1
    /\ \A k \in SystemEntries(reg.sources) : reg.sources[k][2] = "database"

\* C2 as stated: for every label of the list, get_source_settings returns,
\* without raising, the entry stored under the label in the section of the
\* first descriptor carrying it.
C2_ResolvesStoredEntry ==
  (reg.op = "resolve" /\ InRegistry(reg.label)) =>
    /\ reg.error = "none"
    /\ reg.val = StoredEntry(Carrying(reg.label)[1])

\* C2 as amended: that holds for every label of the list other than
\* "dwata_meta"; for "dwata_meta" the fixed system descriptor is returned,
\* whatever the sections hold under that label.
C2_ResolvesStoredEntryExceptSystem ==
  (reg.op = "resolve" /\ InRegistry(reg.label)) =>
    /\ reg.error = "none"
    /\ reg.label # "dwata_meta" =>
         /\ reg.val = StoredEntry(Carrying(reg.label)[1])
         /\ reg.val # NoValue
    /\ reg.label = "dwata_meta" =>
         reg.val = [db_url |-> "sqlite:///dwata_meta.db"]

\* "sales" is a database and a service at once and resolves to the database entry
C2_Witness ==
  /\ reg.op = "resolve" /\ reg.label = "sales"
  /\ "sales" \in DOMAIN settings.DATABASES
  /\ "MAILCHIMP" \in DOMAIN settings.sections
  /\ "sales" \in DOMAIN settings.sections["MAILCHIMP"]
  /\ reg.val = settings.DATABASES["sales"]

\* C3: get_source_settings(L) for L other than "dwata_meta" that no descriptor
\* of the list carries fails with the lookup error (NotFound) and returns
\* nothing.
C3_UnknownLabelNotFound ==
  (reg.op = "resolve" /\ reg.label # "dwata_meta" /\ RegistryOk
     /\ Carrying(reg.label) = <<>>) =>
    /\ reg.error = "IndexError"
    /\ reg.val = NoValue

\* "sales" is looked up while only other labels are configured
C3_Witness ==
  /\ reg.op = "resolve" /\ reg.label = "sales"
  /\ ~settings.broken
  /\ DOMAIN settings.DATABASES = {"dwata_meta"}
  /\ "STRIPE" \in DOMAIN settings.sections
  /\ reg.error = "IndexError"

\* C4: get_source_settings("dwata_meta") returns the fixed system database
\* descriptor and never reads the Settings Provider, in every state of the
\* provider, a broken one included.
C4_SystemLabelBypassesSettings ==
  (reg.op = "resolve" /\ reg.label = "dwata_meta") =>
    /\ reg.error = "none"
    /\ reg.val = [db_url |-> "sqlite:///dwata_meta.db"]
    /\ reg.reads = 0

\* "dwata_meta" is resolved while the Settings Provider is broken
C4_Witness ==
  /\ reg.op = "resolve" /\ reg.label = "dwata_meta"
  /\ settings.broken
  /\ reg.val = [db_url |-> "sqlite:///dwata_meta.db"]

\* the outcomes that are faults of a connection or of the store
IOFailures == {"ConnectionFailure", "ReflectionFailure", "StoreFailure"}

\* the db_url the settings give for a database label
UrlOf(label) ==
  IF label = "dwata_meta" THEN "sqlite:///dwata_meta.db"
  ELSE settings.DATABASES[label].db_url

\* the TableRecords the current refresh inserted
Inserted == SubSeq(tables, Len(storeAtStart.tables) + 1, Len(tables))

\* the TableRecords of a store that belong to the DataSourceRecord of a label
CountFor(recs, label) ==
  Cardinality({k \in 1..Len(recs) :
     \E r \in {data_sources[j] : j \in 1..Len(data_sources)} :
        r.label = label /\ recs[k].data_source_id = r.id})

\* the events of the current refresh that concern a label
EventsFor(label) == SelectSeq(trace, LAMBDA e : e[2] = label)

\* C5: refresh of the one Database label L that has a DataSourceRecord, with
\* no fault of the connection or the store, succeeds and inserts one
\* TableRecord per table of the live source, each with the id of L's
\* DataSourceRecord, and nothing else.
C5_InsertsOnePerTable ==
  (pc = "done" /\ Len(batch) = 1 /\ IsDatabaseLabel(batch[1])
     /\ \E j \in 1..Len(data_sources) : data_sources[j].label = batch[1]) =>
    (outcome \notin IOFailures =>
      /\ outcome = "success"
      /\ Len(tables) = Len(storeAtStart.tables) + Len(liveTables[UrlOf(batch[1])])
      /\ SubSeq(tables, 1, Len(storeAtStart.tables)) = storeAtStart.tables
      /\ data_sources = storeAtStart.data_sources
      /\ \A k \in 1..Len(Inserted) :
           /\ Inserted[k].table_name = liveTables[UrlOf(batch[1])][k]
           /\ Inserted[k].attributes = <<>>
           /\ \E j \in 1..Len(data_sources) :
                /\ data_sources[j].label = batch[1]
                /\ Inserted[k].data_source_id = data_sources[j].id)

\* refresh(["sales"]) inserted two records, the second DataSourceRecord's
C5_Witness ==
  /\ pc = "done" /\ batch = <<"sales">> /\ outcome = "success"
  /\ Len(data_sources) = 2
  /\ Len(Inserted) = 2
  /\ Inserted[1].data_source_id = 2

\* C6 as stated: in a batch of a Service label and a Database label M, in
\* whatever order, nothing is done for M.
C6_NoWorkForDatabaseAnyOrder ==
  \A i, j \in 1..Len(batch) :
    (Len(batch) = 2 /\ IsServiceLabel(batch[i]) /\ IsDatabaseLabel(batch[j])) =>
      EventsFor(batch[j]) = <<>>

\* C6 as amended: when the Service label comes before M in
\* source_label_list, refresh returns False and nothing is done for M: no
\* connection is opened and no TableRecord is inserted.
C6_NoWorkForDatabaseAfterService ==
  (Len(batch) = 2 /\ IsServiceLabel(batch[1]) /\ IsDatabaseLabel(batch[2])) =>
    /\ EventsFor(batch[2]) = <<>>
    /\ pc # "idle" => tables = storeAtStart.tables
    /\ ~conn
    /\ pc = "done" => outcome = "False"

\* refresh(["sales", "dwata_meta"]) returned False with work there for dwata_meta
C6_Witness ==
  /\ pc = "done" /\ batch = <<"sales", "dwata_meta">>
  /\ IsServiceLabel("sales")
  /\ outcome = "False"
  /\ \E j \in 1..Len(data_sources) : data_sources[j].label = "dwata_meta"
  /\ liveTables["sqlite:///dwata_meta.db"] # <<>>

\* C7: refresh of a batch whose labels are absent from the registry fails
\* with the lookup error (UnknownSource) and leaves the Metadata Store as it
\* was.
C7_UnknownSourceStoreUnchanged ==
  (pc = "done" /\ RegistryOk
     /\ \A k \in 1..Len(batch) : Carrying(batch[k]) = <<>>) =>
    /\ outcome = "IndexError"
    /\ tables = storeAtStart.tables
    /\ data_sources = storeAtStart.data_sources

\* refresh(["sales"]) failed with "sales" unconfigured and a store that is not empty
C7_Witness ==
  /\ pc = "done" /\ batch = <<"sales">>
  /\ RegistryOk /\ Carrying("sales") = <<>>
  /\ outcome = "IndexError"
  /\ tables # <<>>

\* two successful refreshes of the one Database label, one after the other
TwiceInSuccession ==
  /\ pc = "done" /\ calls >= 2
  /\ Len(batch) = 1 /\ prev.batch = batch
  /\ IsDatabaseLabel(batch[1])
  /\ outcome = "success" /\ prev.outcome = "success"

\* C8 as stated: after the second call the count for L is twice the count
\* after the first.
C8_SecondRefreshDoubles ==
  TwiceInSuccession =>
    CountFor(tables, batch[1]) = 2 * CountFor(storeAtStart.tables, batch[1])

\* C8 as amended: the second call inserts as many TableRecords for L as the
\* first did, none is updated or deleted, and the count doubles when L had
\* no TableRecord before the first call.
C8_SecondRefreshInsertsAgain ==
  TwiceInSuccession =>
    /\ CountFor(tables, batch[1]) - CountFor(storeAtStart.tables, batch[1])
         = CountFor(storeAtStart.tables, batch[1])
             - CountFor(prev.storeAtStart.tables, batch[1])
    /\ SubSeq(tables, 1, Len(storeAtStart.tables)) = storeAtStart.tables
    /\ CountFor(prev.storeAtStart.tables, batch[1]) = 0 =>
         CountFor(tables, batch[1]) = 2 * CountFor(storeAtStart.tables, batch[1])

\* refresh(["sales"]) ran twice on an empty store: two records, then four
C8_Witness ==
  /\ TwiceInSuccession /\ batch = <<"sales">>
  /\ prev.storeAtStart.tables = <<>>
  /\ CountFor(storeAtStart.tables, "sales") = 2
  /\ CountFor(tables, "sales") = 4

\* C9: no refresh ends, and none moves to its next label, with the
\* connection it opened still open.
C9_ConnectionAlwaysClosed ==
  pc \in {"done", "resolve"} => ~conn

\* C10: with no DataSourceRecord for a Database label, refresh fails at the
\* lookup: it never goes on to connect, ends in the failure of the missing
\* record with nothing done, and no later label is processed.
C10_MissingRecordFailsAtLookup ==
  /\ pc = "connect" => data_source # None
  /\ (pc = "done" /\ Len(batch) >= 1 /\ IsDatabaseLabel(batch[1])
        /\ fetch_one(data_sources, batch[1]) = None) =>
       /\ outcome = "TypeError"
       /\ trace = <<>>

====
